---- MODULE Spec2Model ----
(***************************************************************************)
(* A model of app.py, the Streamlit dashboard of the digital               *)
(* transformation index.  One run of the script is the sequence            *)
(*   load_data -> preprocessing -> sidebar -> main content ->              *)
(*   distribution -> tabs,                                                 *)
(* and a user interaction with a rendered widget starts the next run.      *)
(*                                                                         *)
(* Text (the identifier column after astype(str), what the user types) is  *)
(* a sequence of decimal digits: "600003" is <<6,0,0,0,0,3>>, "" is <<>>.  *)
(* An index value is an integer-valued float; a mean is the exact          *)
(* fraction <<sum, count>>.  Cells of the year and index columns are never *)
(* missing (the input schema); a name cell may be missing (NA).            *)
(***************************************************************************)
EXTENDS Integers, Sequences, FiniteSets, TLC

VARIABLES
    exists,           \* the candidate paths for which os.path.exists is true
    corrupt,          \* the existing paths that pd.read_excel cannot parse
    files,            \* path -> the table the workbook at that path holds
    cache,            \* st.cache_data's entry for load_data()
    pc,               \* the position of the script run
    df,               \* the module-level df: [none, rows]
    error_shown,      \* st.error was called
    raised,           \* the run ended with an exception
    rendered,         \* the elements the run has rendered so far
    widget_text,      \* session state of the text input: [set, v]
    widget_year,      \* session state of the slider: [set, v]
    available_stocks,
    available_years,
    stock_name_map,
    stock_search,
    slider_args,      \* the arguments of the st.sidebar.slider call
    selected_year,
    company_all_data,
    filtered_data,
    header,           \* the name in the main header
    overview,         \* the four global metrics
    current,          \* the four current-selection metrics: [shown, ...]
    trend,            \* "none" | "chart" | "warning"
    distribution,     \* label -> count
    top_stocks,       \* the heatmap's identifiers
    top20,            \* the ranking chart's rows
    change            \* tab 5: year, mean and change per year

vars == <<exists, corrupt, files, cache, pc, df, error_shown, raised, rendered,
          widget_text, widget_year, available_stocks, available_years,
          stock_name_map, stock_search, slider_args, selected_year,
          company_all_data, filtered_data, header, overview, current,
          trend, distribution, top_stocks, top20, change>>

(***************************************************************************)
(* Values                                                                  *)
(***************************************************************************)

\* The candidate paths of data_files, by position in the list.
data_files == <<1, 2, 3>>

\* A missing cell of the name column (NaN after read_excel).
NA == "<NA>"

\* The fill value of fillna and the fallback of stock_name_map.get.
UnknownName == "unknown entity"

\* The slider's default value.
DefaultYear == 1999

\* The fallback of default_stock, "600003".
FallbackStock == <<6, 0, 0, 0, 0, 3>>

bins == <<0, 20, 40, 60, 80, 100>>

labels == <<"0-20", "20-40", "40-60", "60-80", "80-100">>

\* The category of a value no bin holds (NaN in the categorical column).
NoBucket == "NaN"

HeatmapN == 30

RankingN == 20

(***************************************************************************)
(* Text and sequences                                                      *)
(***************************************************************************)

RECURSIVE Digits(_)
Digits(n) == IF n < 10 THEN <<n>> ELSE Append(Digits(n \div 10), n % 10)

\* str(x) of a non-negative integer cell.
Str(n) == Digits(n)

\* Python's < on str: the first differing character decides, a proper
\* prefix is smaller.
RECURSIVE StrLess(_, _)
StrLess(a, b) ==
    IF b = <<>> THEN FALSE
    ELSE IF a = <<>> THEN TRUE
    ELSE IF Head(a) # Head(b) THEN Head(a) < Head(b)
    ELSE StrLess(Tail(a), Tail(b))

Range(s) == {s[i] : i \in DOMAIN s}

RECURSIVE SortedInts(_)
SortedInts(S) ==
    IF S = {} THEN <<>>
    ELSE LET m == CHOOSE x \in S : \A y \in S : x <= y
         IN  <<m>> \o SortedInts(S \ {m})

\* x put into the ascending sequence s.
InsertStr(x, s) ==
    LET k == Cardinality({i \in DOMAIN s : StrLess(s[i], x)})
    IN  SubSeq(s, 1, k) \o <<x>> \o SubSeq(s, k + 1, Len(s))

\* sorted() of a set of strings.
RECURSIVE SortedStrs(_)
SortedStrs(S) ==
    IF S = {} THEN <<>>
    ELSE LET x == CHOOSE x \in S : TRUE
         IN  InsertStr(x, SortedStrs(S \ {x}))

RECURSIVE SumIdx(_)
SumIdx(rows) == IF rows = <<>> THEN 0 ELSE Head(rows).idx + SumIdx(Tail(rows))

\* Series.mean() as the exact fraction <<sum, count>>.
Mean(rows) == <<SumIdx(rows), Len(rows)>>

\* a < b on two means (counts are positive).
MeanLess(a, b) == a[1] * b[2] < b[1] * a[2]

MeanEq(a, b) == a[1] * b[2] = b[1] * a[2]

(***************************************************************************)
(* The library calls of the script, as the functions they compute          *)
(***************************************************************************)

\* A faulty FirstExisting: the last existing candidate wins.
LastExisting(ex) ==
    LET found == {i \in DOMAIN data_files : data_files[i] \in ex}
    IN  data_files[CHOOSE i \in found : \A j \in found : j <= i]

\* for path in data_files: if os.path.exists(path): the first hit.
FirstExisting(ex) ==
    LET found == {i \in DOMAIN data_files : data_files[i] \in ex}
    IN  data_files[CHOOSE i \in found : \A j \in found : i <= j]

\* load_data(): the table of the first existing path, an exception of
\* read_excel, or None after st.error.
load_data(ex, co, fl) ==
    IF Range(data_files) \cap ex = {} THEN [kind |-> "none", rows |-> <<>>]
    ELSE LET path == FirstExisting(ex)
         IN  IF path \in co THEN [kind |-> "raise", rows |-> <<>>]
             ELSE [kind |-> "table", rows |-> fl[path]]

\* df[col].astype(str) on one cell.
astype_str(code) == Str(code)

\* A faulty fillna: the missing names stay missing.
fillna_none(name) == name

\* df[col].fillna(UnknownName) on one cell.
fillna(name) == IF name = NA THEN UnknownName ELSE name

\* Lines 39-40 on the whole table.
Preprocessed(rows) ==
    [i \in DOMAIN rows |->
        [code |-> astype_str(rows[i].code), name |-> fillna(rows[i].name),
         year |-> rows[i].year, idx |-> rows[i].idx]]

Codes(rows) == {rows[i].code : i \in DOMAIN rows}

Years(rows) == {rows[i].year : i \in DOMAIN rows}

\* GroupBy.first() of the name column for one key: the first value of the
\* group that is not missing, missing when there is none.
GroupFirst(rows, k) ==
    LET named == SelectSeq(rows, LAMBDA r : r.code = k /\ r.name # NA)
    IN  IF named = <<>> THEN NA ELSE named[1].name

\* df.groupby(code)[name].first().to_dict()
NameMap(rows) == [k \in Codes(rows) |-> GroupFirst(rows, k)]

\* stock_name_map.get(key, default)
MapGet(m, k, d) == IF k \in DOMAIN m THEN m[k] ELSE d

\* sort_values(year): ascending by year (rows of one year keep table order).
RECURSIVE SortByYear(_)
SortByYear(rows) ==
    IF rows = <<>> THEN <<>>
    ELSE LET m == CHOOSE i \in DOMAIN rows :
                      /\ \A j \in DOMAIN rows : rows[i].year <= rows[j].year
                      /\ \A j \in 1..(i - 1) : rows[j].year # rows[i].year
         IN  <<rows[m]>> \o
             SortByYear([j \in 1..(Len(rows) - 1) |->
                            IF j < m THEN rows[j] ELSE rows[j + 1]])

\* df[df[code] == stock_search]
AllYears(rows, code, year) == SelectSeq(rows, LAMBDA r : r.code = code)

\* A faulty ExactMatch: the mask forgets the year.
ExactMatchAnyYear(rows, code, year) == SelectSeq(rows, LAMBDA r : r.code = code)

\* df[(df[code] == stock_search) & (df[year] == selected_year)]
ExactMatch(rows, code, year) ==
    SelectSeq(rows, LAMBDA r : r.code = code /\ r.year = year)

\* A faulty current_rank: a strict comparison.
current_rank_strict(rows, year, value) ==
    Len(SelectSeq(rows, LAMBDA r : r.year = year /\ r.idx > value))

\* current_year_data[current_year_data[idx] >= value].shape[0]
current_rank(rows, year, value) ==
    Len(SelectSeq(rows, LAMBDA r : r.year = year /\ r.idx >= value))

\* A faulty cut: right = False, the bins closed on the left.
cut_left(v) ==
    IF \E i \in 1..Len(labels) : bins[i] <= v /\ v < bins[i + 1]
    THEN labels[CHOOSE i \in 1..Len(labels) : bins[i] <= v /\ v < bins[i + 1]]
    ELSE NoBucket

\* pd.cut(value, bins, labels) with its defaults right = True and
\* include_lowest = False: the bins are (bins[i], bins[i+1]].
cut(v) ==
    IF \E i \in 1..Len(labels) : bins[i] < v /\ v <= bins[i + 1]
    THEN labels[CHOOSE i \in 1..Len(labels) : bins[i] < v /\ v <= bins[i + 1]]
    ELSE NoBucket

\* df[bucket] = pd.cut(df[idx], ...)
WithBuckets(rows) ==
    [i \in DOMAIN rows |->
        [code |-> rows[i].code, name |-> rows[i].name, year |-> rows[i].year,
         idx |-> rows[i].idx, bucket |-> cut(rows[i].idx)]]

\* value_counts() of the categorical column: every category has a count,
\* the missing category has none.
value_counts(rows) ==
    [l \in Range(labels) |->
        Cardinality({i \in DOMAIN rows : rows[i].bucket = l})]

\* df.groupby(code)[idx].mean(): one entry per identifier, in sorted order.
GroupMeans(rows) ==
    LET keys == SortedStrs(Codes(rows))
    IN  [i \in DOMAIN keys |->
            [code |-> keys[i],
             mean |-> Mean(SelectSeq(rows, LAMBDA r : r.code = keys[i]))]]

\* df.groupby(year)[idx].mean().reset_index(): ascending by year.
YearlyMeans(rows) ==
    LET keys == SortedInts(Years(rows))
    IN  [i \in DOMAIN keys |->
            [year |-> keys[i],
             mean |-> Mean(SelectSeq(rows, LAMBDA r : r.year = keys[i]))]]

\* The first n entries of a series.
head(n, s) == SubSeq(s, 1, IF n < Len(s) THEN n ELSE Len(s))

\* e, which precedes every entry of s in the series, put into the
\* descending sequence s: before the entries that are not larger.
InsertDescending(e, s) ==
    LET k == Cardinality({i \in DOMAIN s : MeanLess(e.mean, s[i].mean)})
    IN  SubSeq(s, 1, k) \o <<e>> \o SubSeq(s, k + 1, Len(s))

\* The series in descending order of the mean, equal means in the order of
\* the series.
RECURSIVE SortDescending(_)
SortDescending(s) ==
    IF s = <<>> THEN <<>>
    ELSE InsertDescending(Head(s), SortDescending(Tail(s)))

\* A faulty nlargest: the first n entries of the unsorted series.
nlargest_unsorted(n, s) == head(n, s)

\* Series.nlargest(n), keep = "first": the n largest in descending order,
\* equal values in the order of the series.
nlargest(n, s) == head(n, SortDescending(s))

\* (cur / prev - 1) * 100 in IEEE arithmetic on two means: a fraction
\* <<numerator, denominator>>, or an infinity or NaN when prev is 0.
Percent(prev, cur) ==
    IF prev[1] = 0
    THEN [kind |-> IF cur[1] > 0 THEN "inf" ELSE IF cur[1] < 0 THEN "-inf" ELSE "nan",
          val |-> <<0, 1>>]
    ELSE [kind |-> "num",
          val |-> <<(cur[1] * prev[2] - cur[2] * prev[1]) * 100, cur[2] * prev[1]>>]

\* The first entry of pct_change: no value.
NoValue == [kind |-> "nan", val |-> <<0, 1>>]

\* A faulty pct_change: the first year changes by zero, and every year is
\* compared with the first one.
pct_change_first(s) ==
    [i \in DOMAIN s |->
        IF i = 1 THEN [kind |-> "num", val |-> <<0, 1>>]
        ELSE Percent(s[1].mean, s[i].mean)]

\* Series.pct_change() * 100 on the yearly means.
pct_change(s) ==
    [i \in DOMAIN s |->
        IF i = 1 THEN NoValue ELSE Percent(s[i - 1].mean, s[i].mean)]

(***************************************************************************)
(* The script                                                              *)
(***************************************************************************)

NoCurrent == [shown |-> FALSE, name |-> "", year |-> 0, index |-> 0,
              rank |-> 0, total |-> 0]

NoSlider == [called |-> FALSE, min |-> 0, max |-> 0, value |-> 0]

NoOverview == [mean |-> <<0, 1>>, max |-> 0, nunique |-> 0, years |-> <<0, 0>>]

NoDistribution == [l \in Range(labels) |-> 0]

\* What a run starts from: nothing rendered, nothing computed.
Fresh ==
    /\ pc = "load"
    /\ df = [none |-> TRUE, rows |-> <<>>]
    /\ error_shown = FALSE
    /\ raised = FALSE
    /\ rendered = {}
    /\ available_stocks = <<>>
    /\ available_years = <<>>
    /\ stock_name_map = <<>>
    /\ stock_search = <<>>
    /\ slider_args = NoSlider
    /\ selected_year = 0
    /\ company_all_data = <<>>
    /\ filtered_data = <<>>
    /\ header = ""
    /\ overview = NoOverview
    /\ current = NoCurrent
    /\ trend = "none"
    /\ distribution = NoDistribution
    /\ top_stocks = <<>>
    /\ top20 = <<>>
    /\ change = <<>>

\* The process starts: an empty cache, no widget state.
Start(ex, co, fl) ==
    /\ exists = ex
    /\ corrupt = co
    /\ files = fl
    /\ cache = [set |-> FALSE, rows |-> <<>>]
    /\ widget_text = [set |-> FALSE, v |-> <<>>]
    /\ widget_year = [set |-> FALSE, v |-> 0]
    /\ Fresh

derived == <<available_stocks, available_years, stock_name_map, stock_search,
             slider_args, selected_year, company_all_data, filtered_data,
             header, overview, current, trend, distribution, top_stocks, top20, change>>

world == <<exists, corrupt, files>>

\* df = load_data() on a cache miss, and the test "if df is not None".
LoadData ==
    /\ pc = "load"
    /\ ~cache.set
    /\ LET got == load_data(exists, corrupt, files)
       IN  /\ cache' = IF got.kind = "table"
                       THEN [set |-> TRUE, rows |-> got.rows] ELSE cache
           /\ df' = [none |-> got.kind # "table", rows |-> got.rows]
           /\ error_shown' = (got.kind = "none")
           /\ raised' = (got.kind = "raise")
           /\ pc' = IF got.kind = "table" THEN "preprocess" ELSE "done"
    /\ UNCHANGED <<world, rendered, widget_text, widget_year, derived>>

\* df = load_data() on a cache hit: a copy of the cached table.
LoadCached ==
    /\ pc = "load"
    /\ cache.set
    /\ df' = [none |-> FALSE, rows |-> cache.rows]
    /\ pc' = "preprocess"
    /\ UNCHANGED <<world, cache, error_shown, raised, rendered, widget_text,
                   widget_year, derived>>

\* Lines 39-44.
Preprocess ==
    /\ pc = "preprocess"
    /\ LET rows == Preprocessed(df.rows)
       IN  /\ df' = [df EXCEPT !.rows = rows]
           /\ available_stocks' = SortedStrs(Codes(rows))
           /\ available_years' = SortedInts(Years(rows))
           /\ stock_name_map' = NameMap(rows)
    /\ pc' = "sidebar"
    /\ UNCHANGED <<world, cache, error_shown, raised, rendered, widget_text,
                   widget_year, stock_search, slider_args, selected_year,
                   company_all_data, filtered_data, header, overview, current,
                   trend, distribution, top_stocks, top20, change>>

\* Lines 47-54: the text input returns the session's value (its default on
\* the first run); the slider call raises IndexError on a table without
\* rows and StreamlitAPIException when its default is outside its bounds.
Sidebar ==
    /\ pc = "sidebar"
    /\ LET default_stock == IF available_stocks # <<>> THEN available_stocks[1]
                            ELSE FallbackStock
           text == IF widget_text.set THEN widget_text.v ELSE default_stock
           lo == available_years[1]
           hi == available_years[Len(available_years)]
           ok == available_years # <<>> /\ lo <= DefaultYear /\ DefaultYear <= hi
           year == IF widget_year.set THEN widget_year.v ELSE DefaultYear
       IN  /\ stock_search' = text
           /\ widget_text' = [set |-> TRUE, v |-> text]
           /\ slider_args' = IF available_years = <<>> THEN slider_args
                             ELSE [called |-> TRUE, min |-> lo, max |-> hi,
                                   value |-> DefaultYear]
           /\ raised' = ~ok
           /\ selected_year' = IF ok THEN year ELSE selected_year
           /\ widget_year' = IF ok THEN [set |-> TRUE, v |-> year] ELSE widget_year
           /\ rendered' = rendered \cup {"text_input"}
                              \cup (IF ok THEN {"slider"} ELSE {})
                              \cup (IF ok /\ text # <<>> THEN {"sidebar_info"} ELSE {})
           /\ pc' = IF ok THEN "main" ELSE "done"
    /\ UNCHANGED <<world, cache, df, error_shown, available_stocks,
                   available_years, stock_name_map, company_all_data,
                   filtered_data, header, overview, current, trend,
                   distribution, top_stocks, top20, change>>

\* Lines 56-93: the two subsets, the header, the overview, the metrics of
\* the current selection and the trend chart or its warning.  The name
\* metric is the name cut to ten characters; the names here are shorter.
MainContent ==
    /\ pc = "main"
    /\ LET all == SortByYear(AllYears(df.rows, stock_search, selected_year))
           hit == ExactMatch(df.rows, stock_search, selected_year)
           current_year_data == SelectSeq(df.rows, LAMBDA r : r.year = selected_year)
       IN  /\ company_all_data' = all
           /\ filtered_data' = hit
           /\ header' = MapGet(stock_name_map, stock_search, UnknownName)
           /\ overview' =
                [mean |-> Mean(df.rows),
                 max |-> CHOOSE m \in {df.rows[i].idx : i \in DOMAIN df.rows} :
                            \A i \in DOMAIN df.rows : df.rows[i].idx <= m,
                 nunique |-> Cardinality(Codes(df.rows)),
                 years |-> <<available_years[1],
                             available_years[Len(available_years)]>>]
           /\ current' =
                IF hit # <<>>
                THEN [shown |-> TRUE, name |-> hit[1].name, year |-> selected_year,
                      index |-> hit[1].idx,
                      rank |-> current_rank(df.rows, selected_year, hit[1].idx),
                      total |-> Len(current_year_data)]
                ELSE NoCurrent
           /\ trend' = IF Len(all) > 1 THEN "chart" ELSE "warning"
           /\ rendered' = rendered \cup {"header", "overview"}
                              \cup (IF hit # <<>> THEN {"current"} ELSE {})
                              \cup (IF Len(all) > 1 THEN {"trend_chart"}
                                    ELSE {"trend_warning"})
    /\ pc' = "distribution"
    /\ UNCHANGED <<world, cache, df, error_shown, raised, widget_text,
                   widget_year, available_stocks, available_years,
                   stock_name_map, stock_search, slider_args, selected_year,
                   distribution, top_stocks, top20, change>>

\* Lines 96-115: the bucket column is added to df and counted.
Distribution ==
    /\ pc = "distribution"
    /\ LET rows == WithBuckets(df.rows)
       IN  /\ df' = [df EXCEPT !.rows = rows]
           /\ distribution' = value_counts(rows)
    /\ rendered' = rendered \cup {"distribution", "yearly_avg"}
    /\ pc' = "tabs"
    /\ UNCHANGED <<world, cache, error_shown, raised, widget_text, widget_year,
                   available_stocks, available_years, stock_name_map,
                   stock_search, slider_args, selected_year, company_all_data,
                   filtered_data, header, overview, current, trend, top_stocks,
                   top20, change>>

\* .index of a series of means.
Index(s) == [i \in DOMAIN s |-> s[i].code]

\* reset_index() and the name column mapped from stock_name_map.
Named(s, m) ==
    [i \in DOMAIN s |-> [code |-> s[i].code, mean |-> s[i].mean, name |-> m[s[i].code]]]

\* The yearly means with the change column.
WithRate(s, rate) ==
    [i \in DOMAIN s |-> [year |-> s[i].year, mean |-> s[i].mean, rate |-> rate[i]]]

\* Lines 118-186: the heatmap's and the ranking's identifiers and the
\* yearly change (tabs 3 and 4 draw the yearly means and compute nothing
\* else that is kept).
Tabs ==
    /\ pc = "tabs"
    /\ LET means == GroupMeans(df.rows)
           top30 == nlargest(HeatmapN, means)
           top == nlargest(RankingN, means)
           yearly_mean == YearlyMeans(df.rows)
           rate == pct_change(yearly_mean)
       IN  /\ top_stocks' = IF df.rows # <<>> THEN Index(top30) ELSE <<>>
           /\ top20' = Named(top, stock_name_map)
           /\ change' = WithRate(yearly_mean, rate)
    /\ rendered' = rendered \cup {"tabs"}
    /\ pc' = "done"
    /\ UNCHANGED <<world, cache, df, error_shown, raised, widget_text,
                   widget_year, available_stocks, available_years,
                   stock_name_map, stock_search, slider_args, selected_year,
                   company_all_data, filtered_data, header, overview, current,
                   trend, distribution>>

\* The strings the user types: the empty one, one that no table holds
\* ("000001"), and the first and the last identifier of the table.
Typed ==
    {<<>>, <<0, 0, 0, 0, 0, 1>>}
        \cup (IF available_stocks = <<>> THEN {}
              ELSE {available_stocks[1], available_stocks[Len(available_stocks)]})

\* A widget changed: Streamlit runs the script again from the top.
Rerun ==
    /\ pc' = "load"
    /\ df' = [none |-> TRUE, rows |-> <<>>]
    /\ error_shown' = FALSE
    /\ raised' = FALSE
    /\ rendered' = {}
    /\ available_stocks' = <<>>
    /\ available_years' = <<>>
    /\ stock_name_map' = <<>>
    /\ stock_search' = <<>>
    /\ slider_args' = NoSlider
    /\ selected_year' = 0
    /\ company_all_data' = <<>>
    /\ filtered_data' = <<>>
    /\ header' = ""
    /\ overview' = NoOverview
    /\ current' = NoCurrent
    /\ trend' = "none"
    /\ distribution' = NoDistribution
    /\ top_stocks' = <<>>
    /\ top20' = <<>>
    /\ change' = <<>>
    /\ UNCHANGED <<world, cache>>

\* The user edits the text input of a finished run.
UserTypesCode ==
    /\ pc = "done"
    /\ "text_input" \in rendered
    /\ \E t \in Typed :
          /\ t # widget_text.v
          /\ widget_text' = [set |-> TRUE, v |-> t]
    /\ UNCHANGED widget_year
    /\ Rerun

\* The user moves the slider of a finished run.
UserMovesSlider ==
    /\ pc = "done"
    /\ "slider" \in rendered
    /\ \E y \in slider_args.min..slider_args.max :
          /\ y # widget_year.v
          /\ widget_year' = [set |-> TRUE, v |-> y]
    /\ UNCHANGED widget_text
    /\ Rerun

Next ==
    \/ LoadData
    \/ LoadCached
    \/ Preprocess
    \/ Sidebar
    \/ MainContent
    \/ Distribution
    \/ Tabs
    \/ UserTypesCode
    \/ UserMovesSlider

(***************************************************************************)
(* The tables and the file systems the behaviours start from               *)
(***************************************************************************)

\* One row of the workbook as read_excel returns it.
Row(code, name, year, idx) ==
    [code |-> code, name |-> name, year |-> year, idx |-> idx]

Tables(rowset, n) == UNION {[1..k -> rowset] : k \in 0..n}

\* Only the first candidate exists and holds table T, or no candidate does.
OneFile(T) ==
    \E ex \in {{}, {data_files[1]}} :
        Start(ex, {}, [p \in Range(data_files) |-> IF p \in ex THEN T ELSE <<>>])

\* The most rows of a table of the enumerated families.
MaxRows == 2

\* Two identifiers, three years around the slider's default, three index
\* values: repeated keys, ties, gaps between years and tables without the
\* default year all occur.
KeyRows ==
    {Row(c, "A", y, v) : c \in {1, 600003}, y \in {1998, 1999, 2000},
                         v \in {0, 50, 60}}

Init == \E T \in Tables(KeyRows, MaxRows) : OneFile(T)

Spec == Init /\ [][Next]_vars

\* Names present and missing, for one or two identifiers.
NameRows ==
    {Row(c, n, y, 50) : c \in {1, 600003}, n \in {NA, "A", "B"},
                        y \in {1999, 2000}}

InitNames == \E T \in Tables(NameRows, MaxRows) : OneFile(T)

SpecNames == InitNames /\ [][Next]_vars

\* Index values on, between and outside the edges of the bins.
BucketRows ==
    {Row(600003, "A", 1999, v) : v \in {-1, 0, 10, 20, 40, 60, 80, 100, 101}}
        \cup {Row(1, "A", 2000, 50)}

InitBuckets == \E T \in Tables(BucketRows, MaxRows) : OneFile(T)

SpecBuckets == InitBuckets /\ [][Next]_vars

\* The most identifiers of a wide table: more than both top-N sizes.
MaxStocks == 31

\* The fewest identifiers of a wide table: fewer than both top-N sizes.
MinStocks == RankingN - 1

\* A table of k identifiers in descending order of the code, the index
\* values cycling with step a, and d more rows that give d of the
\* identifiers a second year.
WideTable(k, a, d) ==
    [i \in 1..(k + d) |->
        IF i <= k
        THEN Row(600000 + k + 1 - i, "A", 1999 + (i % 2), ((a * i) % 7) * 10)
        ELSE Row(600000 + (i - k) * 5, "A", 2000, 95)]

InitTop ==
    \E k \in MinStocks..MaxStocks : \E a \in 0..3 : \E d \in {0, 3} :
        OneFile(WideTable(k, a, d))

SpecTop == InitTop /\ [][Next]_vars

\* The workbooks the three candidate paths may hold.
LoadTables ==
    {<<Row(600003, "A", 1999, 10)>>,
     <<Row(600003, "A", 2000, 20)>>,
     <<Row(1, NA, 1999, 30), Row(1, "B", 1998, 40)>>}

\* Every set of existing paths, every set of unreadable ones among them,
\* every assignment of workbooks to the existing paths.
InitLoad ==
    \E ex \in SUBSET Range(data_files) : \E co \in SUBSET ex :
        \E fl \in [Range(data_files) -> LoadTables \cup {<<>>}] :
            /\ \A p \in Range(data_files) : (fl[p] = <<>>) <=> (p \notin ex)
            /\ Start(ex, co, fl)

SpecLoad == InitLoad /\ [][Next]_vars

(***************************************************************************)
(* The claims.  Each is stated on the workbook as it was loaded (Raw) and  *)
(* on what the run displayed, not on the operators the run computes with.  *)
(***************************************************************************)

\* The table load_data returned, before the preprocessing.
Raw == cache.rows

\* The rows of the loaded table with identifier text k.
RawOf(k) == {i \in DOMAIN Raw : Str(Raw[i].code) = k}

\* The rows of the loaded table of year y.
RawIn(y) == {i \in DOMAIN Raw : Raw[i].year = y}

RawCodes == {Str(Raw[i].code) : i \in DOMAIN Raw}

SetMin(S) == CHOOSE x \in S : \A y \in S : x <= y

SetMax(S) == CHOOSE x \in S : \A y \in S : y <= x

RECURSIVE SumAt(_)
SumAt(S) ==
    IF S = {} THEN 0
    ELSE LET i == CHOOSE i \in S : TRUE IN Raw[i].idx + SumAt(S \ {i})

\* The mean of the index over a set of rows of the loaded table.
MeanAt(S) == <<SumAt(S), Cardinality(S)>>

\* The preprocessing of this run is done.
Prepared ==
    \/ pc \in {"sidebar", "main", "distribution", "tabs"}
    \/ pc = "done" /\ "text_input" \in rendered

\* The rows of the current selection in the loaded table.
Hits == RawOf(stock_search) \cap RawIn(selected_year)

\* C1 as claimed: once the distribution is drawn, every row with an index
\* in [0,100], 0 and 100 included, is in one of the five buckets, so the
\* five counts add up to the number of those rows.
C1_BucketsCoverClosedRange ==
    "distribution" \in rendered =>
        LET inside == {i \in DOMAIN Raw : 0 <= Raw[i].idx /\ Raw[i].idx <= 100}
        IN  /\ \A i \in inside : df.rows[i].bucket \in Range(labels)
            /\ distribution["0-20"] + distribution["20-40"] + distribution["40-60"]
                 + distribution["60-80"] + distribution["80-100"]
               = Cardinality(inside)

Between(lo, hi) == {i \in DOMAIN Raw : lo < Raw[i].idx /\ Raw[i].idx <= hi}

C3_Rank ==
    "header" \in rendered =>
        /\ current.shown <=> Hits # {}
        /\ current.shown =>
              LET chosen == Raw[SetMin(Hits)].idx
                  year == RawIn(selected_year)
              IN  /\ current.index = chosen
                  /\ current.rank = Cardinality({i \in year : Raw[i].idx >= chosen})
                  /\ current.total = Cardinality(year)
                  /\ 1 <= current.rank
                  /\ current.rank <= current.total

\* The selected row ties with another row of its year: both count.
C3_Witness ==
    /\ current.shown
    /\ current.rank = 2
    /\ current.total = 2
    /\ \A i \in RawIn(selected_year) : Raw[i].idx = current.index
    /\ Cardinality(RawCodes) = 2

\* C4 as claimed: the exact-match subset has one row when the pair occurs
\* in the table and none when it does not, never more than one.
C4_ExactlyOneRow ==
    "header" \in rendered =>
        /\ Len(filtered_data) = IF Hits # {} THEN 1 ELSE 0
        /\ Hits # {} => current.shown /\ current.index = Raw[SetMin(Hits)].idx

\* C4 amended: the exact-match subset holds the rows of the table with the
\* selected identifier and year, all of them: one row for a pair that
\* occurs once, none for a pair that does not occur, several when the table
\* repeats the pair; the index shown is that of the first of these rows.
C4_ExactMatchRows ==
    "header" \in rendered =>
        /\ Len(filtered_data) = Cardinality(Hits)
        /\ \A n \in DOMAIN filtered_data :
              /\ filtered_data[n].code = stock_search
              /\ filtered_data[n].year = selected_year
        /\ Hits # {} =>
              /\ current.shown
              /\ current.index = Raw[SetMin(Hits)].idx
              /\ filtered_data[1].idx = Raw[SetMin(Hits)].idx
        /\ Hits = {} => ~current.shown

\* The selected pair occurs once in a table that holds the identifier in
\* another year too, and its row is the one shown.
C4_Witness ==
    /\ "header" \in rendered
    /\ Cardinality(Hits) = 1
    /\ Cardinality(RawOf(stock_search)) = 2
    /\ Len(filtered_data) = 1
    /\ current.shown

\* C5: what load_data returns is the workbook of the earliest existing
\* candidate; when no candidate exists the error is shown, df is None and
\* the run ends with nothing rendered.
C5_Loader ==
    /\ cache.set =>
          /\ exists # {}
          /\ corrupt \cap {SetMin(exists)} = {}
          /\ cache.rows = files[SetMin(exists)]
    /\ pc = "preprocess" => df.rows = files[SetMin(exists)]
    /\ (exists = {} /\ pc # "load") =>
          /\ pc = "done"
          /\ error_shown
          /\ df.none
          /\ ~cache.set
          /\ rendered = {}

\* The first candidate is missing, the other two exist with different
\* workbooks, and the second one's was loaded.
C5_Witness ==
    /\ cache.set
    /\ exists = {data_files[2], data_files[3]}
    /\ files[data_files[2]] # files[data_files[3]]
    /\ cache.rows = files[data_files[2]]
    /\ pc = "done"

\* C6 as claimed: the default the slider is called with on a table with
\* rows lies within the slider's bounds.
C6_DefaultInBounds ==
    slider_args.called =>
        /\ slider_args.min <= slider_args.value
        /\ slider_args.value <= slider_args.max

\* The first missing-or-not name cell of an identifier's rows that is not
\* missing, UnknownName when all are missing.
FirstRealName(k) ==
    LET real == {i \in RawOf(k) : Raw[i].name # NA}
    IN  IF real = {} THEN UnknownName ELSE Raw[SetMin(real)].name

\* C7 as claimed: stock_name_map maps an identifier to the first name of
\* its rows that is not missing.
C7_FirstNonMissingName ==
    Prepared =>
        /\ DOMAIN stock_name_map = RawCodes
        /\ \A k \in RawCodes : stock_name_map[k] = FirstRealName(k)

\* C7 amended: stock_name_map maps an identifier to the name of its first
\* row in table order, and to the sentinel when that row's name is missing,
\* whatever names its later rows have.
C7_FirstRowName ==
    Prepared =>
        /\ DOMAIN stock_name_map = RawCodes
        /\ \A k \in RawCodes :
              LET first == Raw[SetMin(RawOf(k))].name
              IN  stock_name_map[k] = IF first = NA THEN UnknownName ELSE first

\* An identifier whose first row has no name and whose second row has one
\* is mapped to the sentinel.
C7_Witness ==
    /\ Prepared
    /\ \E k \in RawCodes :
          /\ Raw[SetMin(RawOf(k))].name = NA
          /\ FirstRealName(k) # UnknownName
          /\ stock_name_map[k] = UnknownName

\* The claimed change from mean p to mean c, (c - p) / p * 100, against a
\* displayed rate.
IsChange(rate, p, c) ==
    IF p[1] = 0
    THEN rate.kind = (IF c[1] > 0 THEN "inf" ELSE IF c[1] < 0 THEN "-inf" ELSE "nan")
    ELSE /\ rate.kind = "num"
         /\ rate.val[2] # 0
         /\ rate.val[1] * (c[2] * p[1]) = (c[1] * p[2] - p[1] * c[2]) * 100 * rate.val[2]

\* C8: the change column has one entry per year of the table in ascending
\* order; the first is "no value" and every later one is the change of
\* the year's mean against the mean of the nearest earlier year of the
\* table.
C8_YearOverYear ==
    "tabs" \in rendered =>
        LET years == {Raw[i].year : i \in DOMAIN Raw}
        IN  /\ Len(change) = Cardinality(years)
            /\ \A n \in DOMAIN change :
                  /\ change[n].year \in years
                  /\ n > 1 => change[n - 1].year < change[n].year
                  /\ MeanEq(change[n].mean, MeanAt(RawIn(change[n].year)))
            /\ change[1].rate.kind = "nan"
            /\ \A n \in DOMAIN change :
                  n > 1 =>
                      LET prev == SetMax({y \in years : y < change[n].year})
                      IN  IsChange(change[n].rate, MeanAt(RawIn(prev)),
                                   MeanAt(RawIn(change[n].year)))

\* Means 50 in 1998 and 60 in 2000, no row of 1999: the change of 2000
\* is +20 and that of 1998 is no value.
C8_Witness ==
    /\ "tabs" \in rendered
    /\ Len(change) = 2
    /\ change[1].year = 1998 /\ MeanEq(change[1].mean, <<50, 1>>)
    /\ change[2].year = 2000 /\ MeanEq(change[2].mean, <<60, 1>>)
    /\ change[1].rate.kind = "nan"
    /\ change[2].rate.kind = "num"
    /\ change[2].rate.val[1] = 20 * change[2].rate.val[2]

\* The mean of the index of every identifier of the loaded table.
RawMeans ==
    LET text == [i \in DOMAIN Raw |-> Str(Raw[i].code)]
    IN  [k \in Range(text) |-> MeanAt({i \in DOMAIN Raw : text[i] = k})]

\* A top-n list of identifiers under the means: n of them or all there
\* are, each once, in non-increasing order of the mean, none with a mean
\* below that of an identifier left out.
IsTop(ids, n, mean) ==
    LET size == Cardinality(DOMAIN mean)
        rest == DOMAIN mean \ Range(ids)
    IN  /\ Len(ids) = IF n < size THEN n ELSE size
        /\ Range(ids) \subseteq DOMAIN mean
        /\ \A i, j \in DOMAIN ids :
              i < j => ids[i] # ids[j] /\ ~MeanLess(mean[ids[i]], mean[ids[j]])
        /\ \A k \in rest : \A i \in DOMAIN ids : ~MeanLess(mean[ids[i]], mean[k])

\* C9: the ranking chart's identifiers are a top-20 list and the heatmap's
\* a top-30 list, and the ranking shows each identifier's mean.
C9_TopN ==
    "tabs" \in rendered =>
        LET mean == RawMeans
        IN  /\ IsTop(Index(top20), RankingN, mean)
            /\ IsTop(top_stocks, HeatmapN, mean)
            /\ \A i \in DOMAIN top20 : MeanEq(top20[i].mean, mean[top20[i].code])

\* More identifiers than either list takes, with different means: both
\* lists are cut, and the first entry beats the last.
C9_Witness ==
    /\ "tabs" \in rendered
    /\ Cardinality(RawCodes) > HeatmapN
    /\ Len(top20) = RankingN
    /\ Len(top_stocks) = HeatmapN
    /\ MeanLess(top20[RankingN].mean, top20[1].mean)
    /\ \E i \in DOMAIN top20 : top20[i].mean[2] = 2

====
